---- MODULE Spec2Model ----
(***************************************************************************)
(* Order execution, position and ledger engine of the simulated trading    *)
(* platform: place_order / cancel_order / close_position /                 *)
(* close_all_positions of apps/api/api/trading.py and the periodic sweep   *)
(* process_pending_orders of apps/api/core/order_processor.py, over the    *)
(* orders, positions, accounts and ledger_entries tables.                  *)
(*                                                                         *)
(* Units.  Prices are whole currency units, sizes are whole units, money   *)
(* (virtual_balance, ledger amounts, fee, pnl) is kept in 1/FEE_DENOM of a *)
(* currency unit so that fee = notional * 0.001 is exact.  A NULL Decimal  *)
(* column is 0: the code only ever tests such a column for truthiness.     *)
(*                                                                         *)
(* Concurrency.  The API handlers run in the web server, the sweep runs in *)
(* Celery workers; all of them read rows into ORM objects, compute in      *)
(* Python and write the computed values back at commit.  Every commit is   *)
(* one step.  A sweep pass is split where other transactions can commit    *)
(* between its reads and its writes: the SELECT of the pending orders, the *)
(* per-order read of account and position, and the per-order commit.       *)
(***************************************************************************)
EXTENDS Integers, Sequences, FiniteSets, TLC

\* ------------------------------------------------------------------ bounds
MaxOrders == 2
InitialBalance == 120000
RANDOM_DENOM == 2

\* ------------------------------------------------------- program constants
MOCK_PRICE == 50000
FEE_DENOM == 1000
SPREAD_DENOM == 20000

\* ------------------------------------------------------------ input domains
Accounts == {1}
Instruments == {1}
Sweepers == {1, 2}
Prices == {MOCK_PRICE, 52000}
Sizes == {0, 1, 2}
Leverages == {1, 2}
Sides == {"buy", "sell"}
\* the requests' order_type, price and stop_price (0: not given)
Requests ==
    {[order_type |-> "market", price |-> 0, stop_price |-> 0],
     [order_type |-> "limit", price |-> MOCK_PRICE, stop_price |-> 0],
     [order_type |-> "stop", price |-> 0, stop_price |-> MOCK_PRICE],
     [order_type |-> "stop_limit", price |-> MOCK_PRICE, stop_price |-> MOCK_PRICE]}
SweptTypes == {"limit", "stop", "stop_limit"}
TerminalStatuses == {"filled", "cancelled", "rejected", "expired"}

VARIABLES accounts, orders, positions, ledger, price, placing, pc, queue, loc, result,
          sim, seen

vars == <<accounts, orders, positions, ledger, price, placing, pc, queue, loc, result, sim,
          seen>>
db == <<accounts, orders, positions, ledger>>

\* ------------------------------------------------------------ pure helpers
Money(units) == units * FEE_DENOM

Notional(fill_price, size) == Money(fill_price * size)

Fee(fill_price, size) == Notional(fill_price, size) \div FEE_DENOM

Min(a, b) == IF a <= b THEN a ELSE b
Max(a, b) == IF a >= b THEN a ELSE b

\* round-half-even quotient n / d, d > 0 (Decimal division, quantized)
DivRound(n, d) ==
    LET q == n \div d
        r == n % d
    IN  IF 2 * r < d THEN q
        ELSE IF 2 * r > d THEN q + 1
        ELSE IF q % 2 = 0 THEN q ELSE q + 1

\* TradingSimulator.calculate_position_pnl: "unrealized_pnl", in money units
calculate_position_pnl(entry_price, current_price, size, side) ==
    LET price_diff == IF side = "buy" THEN current_price - entry_price
                                      ELSE entry_price - current_price
    IN  Money(price_diff * size)

\* should_fill of process_pending_orders, for order row o at current_price
\* a trigger test that would let every priced order through
should_fill_always(o, current_price) ==
    o.type \in {"limit", "stop", "stop_limit"}

should_fill(o, current_price) ==
    CASE o.type = "limit" ->
            \/ o.side = "buy" /\ o.price # 0 /\ current_price <= o.price
            \/ o.side = "sell" /\ o.price # 0 /\ current_price >= o.price
      [] o.type = "stop" ->
            \/ o.side = "buy" /\ o.stop_price # 0 /\ current_price >= o.stop_price
            \/ o.side = "sell" /\ o.stop_price # 0 /\ current_price <= o.stop_price
      [] o.type = "stop_limit" ->
            \/ /\ o.side = "buy"
               /\ o.stop_price # 0 /\ current_price >= o.stop_price
               /\ o.price # 0 /\ current_price <= o.price
            \/ /\ o.side = "sell"
               /\ o.stop_price # 0 /\ current_price <= o.stop_price
               /\ o.price # 0 /\ current_price >= o.price
      [] OTHER -> FALSE

\* fill_price of process_pending_orders when should_fill holds
sweep_fill_price(o, current_price) ==
    CASE o.type = "stop" -> current_price
      [] o.side = "buy" -> Min(current_price, o.price)
      [] OTHER -> Max(current_price, o.price)

\* an entry that would record the balance before the write
LedgerEntryBefore(account_id, entry_type, amount, balance_after, reference_type, reference_id) ==
    [account_id |-> account_id, entry_type |-> entry_type, amount |-> amount,
     balance_after |-> balance_after - amount, reference_type |-> reference_type,
     reference_id |-> reference_id]

LedgerEntry(account_id, entry_type, amount, balance_after, reference_type, reference_id) ==
    [account_id |-> account_id, entry_type |-> entry_type, amount |-> amount,
     balance_after |-> balance_after, reference_type |-> reference_type,
     reference_id |-> reference_id]

Position(account_id, instrument_id, side, size, entry_price, leverage) ==
    [account_id |-> account_id, instrument_id |-> instrument_id, side |-> side,
     size |-> size, entry_price |-> entry_price, leverage |-> leverage,
     status |-> "open"]

\* ids of the open positions of (account, instrument)
OpenPositions(ps, account_id, instrument_id) ==
    {p \in DOMAIN ps : /\ ps[p].account_id = account_id
                       /\ ps[p].instrument_id = instrument_id
                       /\ ps[p].status = "open"}

\* TradingSimulator.SPREADS, in 1/10000 of the price; the default is 0.001
SPREADS(instrument_type) ==
    CASE instrument_type = "forex" -> 2
      [] instrument_type = "crypto" -> 10
      [] instrument_type = "stock" -> 5
      [] instrument_type = "index" -> 3
      [] instrument_type = "commodity" -> 8
      [] OTHER -> 10

\* a price of whole units in the unit of bid and ask, 1/SPREAD_DENOM
Tick(p) == p * SPREAD_DENOM

\* a quote that would put the whole spread on the ask side
calculate_spread_skewed(current_price, instrument_type) ==
    <<Tick(current_price), Tick(current_price) + 2 * current_price * SPREADS(instrument_type)>>

\* TradingSimulator.calculate_spread: <<bid, ask>> in 1/SPREAD_DENOM units,
\* half_spread = current_price * spread_pct / 2 being exact there
calculate_spread(current_price, instrument_type) ==
    LET half_spread == current_price * SPREADS(instrument_type)
    IN  <<Tick(current_price) - half_spread, Tick(current_price) + half_spread>>

\* TradingSimulator.MAX_SLIPPAGE, in 1/1000 of the price
MAX_SLIPPAGE(order_type) ==
    CASE order_type = "market" -> 5
      [] order_type = "limit" -> 0
      [] order_type = "stop" -> 3
      [] OTHER -> 0

\* the values random.uniform(0, 1) is drawn from: n / RANDOM_DENOM
RandomFactors == 0 .. RANDOM_DENOM

\* slippage is exact in 1/SLIP_DENOM of the unit of the price it is given
SLIP_DENOM == 1000 * RANDOM_DENOM

\* a slippage that would move the price in the trader's favour
calculate_slippage_favourable(order_type, side, base_price, random_factor) ==
    LET slippage == base_price * (MAX_SLIPPAGE(order_type) * random_factor)
    IN  IF side = "buy" THEN -slippage ELSE slippage

\* TradingSimulator.calculate_slippage with random factor n / RANDOM_DENOM,
\* in 1/SLIP_DENOM of the unit of base_price
calculate_slippage(order_type, side, base_price, random_factor) ==
    LET max_slip_pct == MAX_SLIPPAGE(order_type)
        slippage == base_price * (max_slip_pct * random_factor)
    IN  IF max_slip_pct = 0 THEN 0
        ELSE IF side = "buy" THEN slippage ELSE -slippage

\* TradingSimulator.simulate_order_fill: the status and, for a fill, the two
\* terms of fill_price = base_price + slippage: base_price in 1/SPREAD_DENOM
\* units, slippage in 1/SLIP_DENOM of that unit; "slippage" is the reported one
simulate_order_fill(order_type, side, current_price, limit_price, stop_price, instrument_type, random_factor) ==
    LET bid == calculate_spread(current_price, instrument_type)[1]
        ask == calculate_spread(current_price, instrument_type)[2]
        touch == IF side = "buy" THEN ask ELSE bid
        slipped == [status |-> "filled", base_price |-> touch,
                    fill_slippage |-> calculate_slippage(order_type, side, touch,
                                                         random_factor),
                    slippage |-> IF order_type = "market"
                                 THEN calculate_slippage(order_type, side, touch,
                                                         random_factor)
                                 ELSE 0]
        at(p) == [status |-> "filled", base_price |-> p, fill_slippage |-> 0,
                  slippage |-> 0]
        no_fill(st) == [status |-> st, base_price |-> 0, fill_slippage |-> 0,
                        slippage |-> 0]
    IN  CASE order_type = "market" -> slipped
          [] order_type = "limit" ->
                IF limit_price = 0 THEN no_fill("rejected")
                ELSE IF side = "buy" /\ Tick(limit_price) >= ask
                THEN at(Min(ask, Tick(limit_price)))
                ELSE IF side = "sell" /\ Tick(limit_price) <= bid
                THEN at(Max(bid, Tick(limit_price)))
                ELSE no_fill("pending")
          [] order_type = "stop" ->
                IF stop_price = 0 THEN no_fill("rejected")
                ELSE IF side = "buy" /\ current_price >= stop_price THEN slipped
                ELSE IF side = "sell" /\ current_price <= stop_price THEN slipped
                ELSE no_fill("pending")
          [] OTHER -> no_fill("rejected")

\* the type of the instruments traded here (BTC/USD)
InstrumentTypeOf(instrument_id) == "crypto"

\* the counters a pass returns
NoResult == [processed |-> 0, filled |-> 0, errors |-> 0]

NoLoc == [fill_price |-> 0, balance |-> 0, pos |-> 0, pos_size |-> 0, pos_entry |-> 0]

\* history of a pass: the prices of the feed when the pass started (no pass
\* is running: none)
NoSeen == [i \in Instruments |-> 0]

\* no call of the simulator has returned
NoSim == [called |-> FALSE]

\* -------------------------------------------------------------------- Init
Init ==
    /\ accounts = [a \in Accounts |->
                     [virtual_balance |-> Money(InitialBalance),
                      margin_used |-> 0, margin_available |-> 0]]
    /\ orders = <<>>
    /\ positions = <<>>
    /\ ledger = <<>>
    /\ sim = NoSim
    /\ seen = [w \in Sweepers |-> NoSeen]
    /\ price = [i \in Instruments |-> MOCK_PRICE]
    /\ placing = {}
    /\ pc = [w \in Sweepers |-> "idle"]
    /\ queue = [w \in Sweepers |-> <<>>]
    /\ loc = [w \in Sweepers |-> NoLoc]
    /\ result = [w \in Sweepers |-> NoResult]

\* ------------------------------------------------------------- place_order
Order(account_id, instrument_id, side, order_type, size, req_price, stop_price) ==
    [account_id |-> account_id, instrument_id |-> instrument_id, side |-> side,
     type |-> order_type, size |-> size, price |-> req_price,
     stop_price |-> stop_price, leverage |-> 1, status |-> "pending",
     filled_size |-> 0, fill_price |-> 0, fee |-> 0, pnl |-> 0]

\* request validation and the balance check of place_order; a request that
\* fails them gets an HTTP error and changes nothing
place_order_accepts(account_id, side, order_type, size, req_price, stop_price, leverage) ==
    /\ ~(order_type = "limit" /\ req_price = 0)
    /\ ~(order_type \in {"stop", "stop_limit"} /\ stop_price = 0)
    /\ side = "buy" =>
         LET base == IF req_price # 0 THEN req_price ELSE MOCK_PRICE
         IN  ~(accounts[account_id].virtual_balance * leverage < Notional(base, size))

\* first commit of place_order: the order row is stored as pending.  (The row
\* is built with the keyword order_type while the table's column is type; a
\* store that refuses the row ends the request with no change, which is a
\* stuttering step.)
place_order_insert(account_id, instrument_id, side, order_type, size, req_price, stop_price, leverage) ==
    /\ Len(orders) < MaxOrders
    /\ place_order_accepts(account_id, side, order_type, size, req_price, stop_price, leverage)
    /\ orders' = Append(orders,
                   Order(account_id, instrument_id, side, order_type, size, req_price, stop_price))
    /\ placing' = placing \cup {Len(orders) + 1}
    /\ UNCHANGED <<accounts, positions, ledger, price, pc, queue, loc, result, sim, seen>>

\* the try block of place_order: simulate_order_fill is a coroutine function
\* called without await, so fill_result is a coroutine object and
\* fill_result["status"] raises before anything is assigned; the handler then
\* commits status rejected and answers 500
place_order_execute(order_id) ==
    /\ order_id \in placing
    /\ orders' = [orders EXCEPT ![order_id].status = "rejected"]
    /\ placing' = placing \ {order_id}
    /\ UNCHANGED <<accounts, positions, ledger, price, pc, queue, loc, result, sim, seen>>

\* ------------------------------------------------------------ cancel_order
cancel_order(account_id, order_id) ==
    /\ order_id \in DOMAIN orders
    /\ orders[order_id].account_id = account_id
    /\ orders[order_id].status = "pending"
    /\ orders' = [orders EXCEPT ![order_id].status = "cancelled"]
    /\ UNCHANGED <<accounts, positions, ledger, price, placing, pc, queue, loc, result, sim, seen>>

\* ---------------------------------------------------------- close_position
\* req_size = 0 is a request without size (close the entire position)
close_position(account_id, position_id, req_size) ==
    /\ position_id \in DOMAIN positions
    /\ positions[position_id].account_id = account_id
    /\ positions[position_id].status = "open"
    /\ LET position == positions[position_id]
           close_size == IF req_size # 0 THEN req_size ELSE position.size
           realized_pnl == calculate_position_pnl(position.entry_price, MOCK_PRICE,
                                                  close_size, position.side)
           new_balance == accounts[account_id].virtual_balance + realized_pnl
       IN  /\ ~(close_size > position.size)
           /\ accounts' = [accounts EXCEPT ![account_id].virtual_balance = new_balance]
           /\ positions' = IF close_size = position.size
                           THEN [positions EXCEPT ![position_id].status = "closed"]
                           ELSE [positions EXCEPT ![position_id].size = @ - close_size]
           /\ ledger' = Append(ledger, LedgerEntry(account_id, "trade_pnl", realized_pnl,
                                                   new_balance, "position", position_id))
    /\ UNCHANGED <<orders, price, placing, pc, queue, loc, result, sim, seen>>

\* ----------------------------------------------------- close_all_positions
Perms(S) == {f \in [1..Cardinality(S) -> S] : \A i, j \in DOMAIN f : i # j => f[i] # f[j]}

RECURSIVE close_all_entries(_, _, _, _, _)
\* ledger entries of close_all_positions for the positions in query order:
\* balance_after is the balance read plus the running total
close_all_entries(account_id, order, i, balance, total_pnl) ==
    IF i > Len(order) THEN <<>>
    ELSE LET position == positions[order[i]]
             realized_pnl == calculate_position_pnl(position.entry_price, MOCK_PRICE,
                                                    position.size, position.side)
         IN  <<LedgerEntry(account_id, "trade_pnl", realized_pnl,
                           balance + total_pnl + realized_pnl, "position", order[i])>>
             \o close_all_entries(account_id, order, i + 1, balance, total_pnl + realized_pnl)

RECURSIVE SumAmounts(_)
SumAmounts(entries) ==
    IF entries = <<>> THEN 0 ELSE Head(entries).amount + SumAmounts(Tail(entries))

close_all_positions(account_id) ==
    LET open_positions == {p \in DOMAIN positions : /\ positions[p].account_id = account_id
                                                    /\ positions[p].status = "open"}
    IN  /\ open_positions # {}
        /\ \E order \in Perms(open_positions) :
             LET entries == close_all_entries(account_id, order, 1,
                                              accounts[account_id].virtual_balance, 0)
             IN  /\ ledger' = ledger \o entries
                 /\ accounts' = [accounts EXCEPT
                                   ![account_id].virtual_balance = @ + SumAmounts(entries)]
        /\ positions' = [p \in DOMAIN positions |->
                           IF p \in open_positions
                           THEN [positions[p] EXCEPT !.status = "closed"]
                           ELSE positions[p]]
        /\ UNCHANGED <<orders, price, placing, pc, queue, loc, result, sim, seen>>

\* -------------------------------------------------------------- price feed
\* a new candle or update_mock_price changes what get_price_for_instrument returns
price_update(instrument_id, new_price) ==
    /\ price[instrument_id] # new_price
    /\ price' = [price EXCEPT ![instrument_id] = new_price]
    /\ UNCHANGED <<accounts, orders, positions, ledger, placing, pc, queue, loc, result, sim, seen>>

\* --------------------------------------------------- process_pending_orders
\* the SELECT of the pending limit/stop/stop_limit orders; it has no ORDER BY,
\* so the rows come in any order
pending_orders ==
    {o \in DOMAIN orders : orders[o].status = "pending" /\ orders[o].type \in SweptTypes}

\* a pass starts in any idle worker; the workers are interchangeable, so the
\* second one is taken only while the first is busy
sweep_select(w) ==
    /\ pc[w] = "idle"
    /\ \A v \in Sweepers : v < w => pc[v] # "idle"
    /\ pending_orders # {}
    /\ \E order \in Perms(pending_orders) : queue' = [queue EXCEPT ![w] = order]
    /\ pc' = [pc EXCEPT ![w] = "loop"]
    /\ result' = [result EXCEPT ![w] = NoResult]
    /\ seen' = [seen EXCEPT ![w] = price]
    /\ UNCHANGED <<accounts, orders, positions, ledger, price, placing, loc, sim>>

\* the loop moves to its next order, or the pass returns
next_order(w) ==
    /\ queue' = [queue EXCEPT ![w] = Tail(@)]
    /\ pc' = [pc EXCEPT ![w] = IF Len(queue[w]) > 1 THEN "loop" ELSE "idle"]
    /\ loc' = [loc EXCEPT ![w] = NoLoc]
    /\ seen' = [seen EXCEPT ![w] = IF Len(queue[w]) > 1 THEN @ ELSE NoSeen]

\* one loop iteration up to the decision: the price is read, the trigger
\* condition evaluated (the order's status is not read again), and for a
\* triggered order the account and the open position are read
sweep_evaluate(w) ==
    /\ pc[w] = "loop"
    /\ LET order_id == Head(queue[w])
           order == orders[order_id]
           current_price == price[order.instrument_id]
           fill_price == sweep_fill_price(order, current_price)
           balance == accounts[order.account_id].virtual_balance
           required_margin == Notional(fill_price, order.size) \div order.leverage
           open == OpenPositions(positions, order.account_id, order.instrument_id)
       IN  IF ~(should_fill(order, current_price) /\ fill_price # 0)
           THEN /\ next_order(w)
                /\ result' = [result EXCEPT ![w].processed = @ + 1]
                /\ UNCHANGED <<accounts, orders, positions, ledger, price, placing, sim>>
           ELSE IF order.side = "buy" /\ balance < required_margin
           THEN /\ orders' = [orders EXCEPT ![order_id].status = "rejected"]
                /\ next_order(w)
                /\ result' = [result EXCEPT ![w].processed = @ + 1]
                /\ UNCHANGED <<accounts, positions, ledger, price, placing, sim>>
           ELSE /\ \/ /\ open = {}
                      /\ loc' = [loc EXCEPT ![w] =
                                   [fill_price |-> fill_price, balance |-> balance,
                                    pos |-> 0, pos_size |-> 0, pos_entry |-> 0]]
                   \/ \E p \in open :
                        loc' = [loc EXCEPT ![w] =
                                  [fill_price |-> fill_price, balance |-> balance,
                                   pos |-> p, pos_size |-> positions[p].size,
                                   pos_entry |-> positions[p].entry_price]]
                /\ pc' = [pc EXCEPT ![w] = "commit"]
                /\ result' = [result EXCEPT ![w].processed = @ + 1]
                /\ UNCHANGED <<accounts, orders, positions, ledger, price, placing, queue, sim, seen>>

\* a position book that would keep the old entry price on a same-side fill
apply_fill_positions_keep_entry(order, l) ==
    IF l.pos = 0
    THEN Append(positions, Position(order.account_id, order.instrument_id, order.side,
                                    order.size, l.fill_price, order.leverage))
    ELSE IF positions[l.pos].side = order.side
    THEN [positions EXCEPT ![l.pos].size = l.pos_size + order.size]
    ELSE IF order.size >= l.pos_size
    THEN LET closed == [positions EXCEPT ![l.pos].status = "closed"]
         IN  IF order.size > l.pos_size
             THEN Append(closed, Position(order.account_id, order.instrument_id,
                                          order.side, order.size - l.pos_size,
                                          l.fill_price, order.leverage))
             ELSE closed
    ELSE [positions EXCEPT ![l.pos].size = l.pos_size - order.size]

\* a position book that would flip the overshot position in place
apply_fill_positions_flip(order, l) ==
    IF l.pos # 0 /\ positions[l.pos].side # order.side /\ order.size > l.pos_size
    THEN [positions EXCEPT ![l.pos].side = order.side,
                           ![l.pos].size = order.size - l.pos_size,
                           ![l.pos].entry_price = l.fill_price]
    ELSE IF l.pos = 0
    THEN Append(positions, Position(order.account_id, order.instrument_id, order.side,
                                    order.size, l.fill_price, order.leverage))
    ELSE IF positions[l.pos].side = order.side
    THEN [positions EXCEPT ![l.pos].size = l.pos_size + order.size]
    ELSE [positions EXCEPT ![l.pos].status = "closed"]

\* the position book after the fill of order at l.fill_price, from the
\* position row read into l (l.pos = 0: no open position was found)
apply_fill_positions(order, l) ==
    IF l.pos = 0
    THEN Append(positions, Position(order.account_id, order.instrument_id, order.side,
                                    order.size, l.fill_price, order.leverage))
    ELSE IF positions[l.pos].side = order.side
    THEN [positions EXCEPT
            ![l.pos].size = l.pos_size + order.size,
            ![l.pos].entry_price = DivRound(l.pos_entry * l.pos_size
                                            + l.fill_price * order.size,
                                            l.pos_size + order.size)]
    ELSE IF order.size >= l.pos_size
    THEN LET closed == [positions EXCEPT ![l.pos].status = "closed"]
             remaining_size == order.size - l.pos_size
         IN  IF remaining_size > 0
             THEN Append(closed, Position(order.account_id, order.instrument_id,
                                          order.side, remaining_size, l.fill_price,
                                          order.leverage))
             ELSE closed
    ELSE [positions EXCEPT ![l.pos].size = l.pos_size - order.size]

\* TRUE when the fill closes the position read into l completely
closes_position(order, l) ==
    /\ l.pos # 0
    /\ positions[l.pos].side # order.side
    /\ order.size >= l.pos_size

\* the re-averaging divides by the total size: 0 / 0 raises
fill_raises(order, l) ==
    /\ l.pos # 0
    /\ positions[l.pos].side = order.side
    /\ l.pos_size + order.size = 0

\* the fill of a triggered order and its commit: order, account, position and
\* ledger rows are written in one transaction, from the values read before
sweep_fill(w) ==
    /\ pc[w] = "commit"
    /\ LET order_id == Head(queue[w])
           order == orders[order_id]
           l == loc[w]
           notional_value == Notional(l.fill_price, order.size)
           fee == notional_value \div FEE_DENOM
           margin_required == notional_value \div order.leverage
           realized_pnl == IF closes_position(order, l)
                           THEN calculate_position_pnl(l.pos_entry, l.fill_price,
                                                       l.pos_size, positions[l.pos].side)
                           ELSE 0
           new_balance == l.balance - (margin_required + fee) + realized_pnl
           pnl_entries == IF closes_position(order, l)
                          THEN <<LedgerEntry(order.account_id, "trade_pnl", realized_pnl,
                                             new_balance, "order", order_id)>>
                          ELSE <<>>
       IN  /\ ~fill_raises(order, l)
           /\ orders' = [orders EXCEPT
                           ![order_id].status = "filled",
                           ![order_id].fill_price = l.fill_price,
                           ![order_id].filled_size = order.size,
                           ![order_id].fee = fee,
                           ![order_id].pnl = IF closes_position(order, l)
                                             THEN realized_pnl ELSE @]
           /\ accounts' = [accounts EXCEPT ![order.account_id].virtual_balance = new_balance]
           /\ positions' = apply_fill_positions(order, l)
           /\ ledger' = ledger \o pnl_entries
                        \o <<LedgerEntry(order.account_id, "fee", -fee, new_balance,
                                         "order", order_id)>>
    /\ next_order(w)
    /\ result' = [result EXCEPT ![w].filled = @ + 1]
    /\ UNCHANGED <<price, placing, sim>>

\* a handler that would give up the pass at the first failure
sweep_rollback_abort(w) ==
    /\ pc[w] = "commit"
    /\ queue' = [queue EXCEPT ![w] = <<>>]
    /\ pc' = [pc EXCEPT ![w] = "idle"]
    /\ loc' = [loc EXCEPT ![w] = NoLoc]
    /\ seen' = [seen EXCEPT ![w] = NoSeen]
    /\ result' = [result EXCEPT ![w].errors = @ + 1]
    /\ UNCHANGED <<accounts, orders, positions, ledger, price, placing, sim>>

\* a handler that would keep the balance write of the failed transaction
sweep_rollback_partial(w) ==
    /\ pc[w] = "commit"
    /\ LET order == orders[Head(queue[w])]
           notional_value == Notional(loc[w].fill_price, order.size)
       IN  accounts' = [accounts EXCEPT ![order.account_id].virtual_balance =
                           loc[w].balance - (notional_value \div order.leverage)
                                          - Fee(loc[w].fill_price, order.size)]
    /\ next_order(w)
    /\ result' = [result EXCEPT ![w].errors = @ + 1]
    /\ UNCHANGED <<orders, positions, ledger, price, placing, sim>>

\* an exception while the triggered order is processed (the re-averaging
\* division, or the store failing at flush or commit): session.rollback()
\* discards the transaction and the loop continues
sweep_rollback(w) ==
    /\ pc[w] = "commit"
    /\ next_order(w)
    /\ result' = [result EXCEPT ![w].errors = @ + 1]
    /\ UNCHANGED <<accounts, orders, positions, ledger, price, placing, sim>>

\* _handle_position_update of trading.py, on position book ps for an order
\* row filled with filled_size at fill_price: the new book and the P&L it
\* realizes (closes: whether it realizes any).  New positions get leverage 1.
handle_position_update(ps, order, fill_price, filled_size) ==
    LET open == OpenPositions(ps, order.account_id, order.instrument_id)
        p == CHOOSE q \in open : \A r \in open : q <= r
        opened(size) == [Position(order.account_id, order.instrument_id, order.side,
                                  size, fill_price, 1) EXCEPT !.leverage = 1]
    IN  IF open = {}
        THEN [positions |-> Append(ps, opened(filled_size)), closes |-> FALSE, pnl |-> 0]
        ELSE IF ps[p].side = order.side
        THEN [positions |->
                 [ps EXCEPT ![p].size = @ + filled_size,
                            ![p].entry_price =
                                DivRound(ps[p].entry_price * ps[p].size
                                         + fill_price * filled_size,
                                         ps[p].size + filled_size)],
              closes |-> FALSE, pnl |-> 0]
        ELSE IF filled_size >= ps[p].size
        THEN LET closed == [ps EXCEPT ![p].status = "closed"]
                 remaining_size == filled_size - ps[p].size
             IN  [positions |-> IF remaining_size > 0
                                THEN Append(closed, opened(remaining_size))
                                ELSE closed,
                  closes |-> TRUE,
                  pnl |-> calculate_position_pnl(ps[p].entry_price, fill_price,
                                                 ps[p].size, ps[p].side)]
        ELSE [positions |-> [ps EXCEPT ![p].size = @ - filled_size],
              closes |-> FALSE, pnl |-> 0]

\* what place_order's body after the simulator call commits for order
\* order_id when fill_result is a fill of the whole size at fill_price: the
\* position book, the balance and the ledger entries added
place_order_fill(order_id, fill_price) ==
    LET order == orders[order_id]
        upd == handle_position_update(positions, order, fill_price, order.size)
        balance == accounts[order.account_id].virtual_balance + upd.pnl
    IN  [positions |-> upd.positions,
         virtual_balance |-> balance,
         entries |-> IF upd.closes
                     THEN <<LedgerEntry(order.account_id, "trade_pnl", upd.pnl, balance,
                                        "order", order_id)>>
                     ELSE <<>>]

\* -------------------------------------------------------------------- Next
\* the trading requests of the clients: order types and prices rs, sizes ss
\* ----------------------------------------------------- get_account_balance
\* margin_used of a position row: no fill and no close assigns it, so every
\* row carries the column default
POSITION_MARGIN_USED == 0

\* GET /{account_id}/balance: the margin columns of the account are
\* recomputed from the open positions and committed; this is the only
\* assignment to margin_used and margin_available in the program
get_account_balance(account_id) ==
    /\ LET open_positions == {p \in DOMAIN positions :
                                 /\ positions[p].account_id = account_id
                                 /\ positions[p].status = "open"}
           total_margin_used == Cardinality(open_positions) * POSITION_MARGIN_USED
       IN  accounts' = [accounts EXCEPT
                          ![account_id].margin_used = total_margin_used,
                          ![account_id].margin_available =
                              accounts[account_id].virtual_balance - total_margin_used]
    /\ UNCHANGED <<orders, positions, ledger, price, placing, pc, queue, loc, result, sim, seen>>

Trading(rs, ss) ==
    \/ \E a \in Accounts, i \in Instruments, side \in Sides, r \in rs,
          size \in ss, lev \in Leverages :
         place_order_insert(a, i, side, r.order_type, size, r.price, r.stop_price, lev)
    \/ \E o \in placing : place_order_execute(o)
    \/ \E a \in Accounts, o \in DOMAIN orders : cancel_order(a, o)

Closing ==
    \/ \E a \in Accounts, p \in DOMAIN positions, size \in Sizes : close_position(a, p, size)
    \/ \E a \in Accounts : close_all_positions(a)

Feed == \E i \in Instruments, p \in Prices : price_update(i, p)

Balance == \E a \in Accounts : get_account_balance(a)

\* the sweep task running in the workers ws
Sweep(ws) ==
    \/ \E w \in ws : sweep_select(w)
    \/ \E w \in ws : sweep_evaluate(w)
    \/ \E w \in ws : sweep_fill(w)
    \/ \E w \in ws : sweep_rollback(w)

\* one sweep pass at a time (the beat schedule starts a pass every 30 s)
\* (sim stays as it is: no request gets a result from the simulator, since
\* place_order does not await the coroutine)
Next == Trading(Requests, Sizes) \/ Closing \/ Feed \/ Sweep({1})

Spec == Init /\ [][Next]_vars

\* overlapping passes (a pass that outlasts the beat interval, or a retried
\* task, runs next to the following one), for limit orders of positive size
\* while the price stands still
LimitRequests == {r \in Requests : r.order_type = "limit"}

NextOverlap == Trading(LimitRequests, Sizes \ {0}) \/ Sweep(Sweepers)

SpecOverlap == Init /\ [][NextOverlap]_vars

\* limit orders of positive size, one sweep pass at a time, with the balance
\* endpoint being polled
NextMargin == Trading(LimitRequests, Sizes \ {0}) \/ Feed \/ Sweep({1}) \/ Balance

SpecMargin == Init /\ [][NextMargin]_vars

\* the exception the fill itself raises (the division by a total size of
\* zero), handled like any other: rollback, next order
fill_exception(w) ==
    /\ pc[w] = "commit"
    /\ fill_raises(orders[Head(queue[w])], loc[w])
    /\ sweep_rollback(w)

\* a sweep whose store never fails: a fill is given up only when the code
\* raises
SweepLive(ws) ==
    \/ \E w \in ws : sweep_select(w)
    \/ \E w \in ws : sweep_evaluate(w)
    \/ \E w \in ws : sweep_fill(w)
    \/ \E w \in ws : fill_exception(w)

NextLive == Trading(LimitRequests, Sizes) \/ Feed \/ SweepLive({1})

\* the beat schedule starts a pass every 30 s whenever the worker is free,
\* and a running pass takes its next step; requests and the feed come as
\* they please
SweepFairness ==
    /\ WF_vars(sweep_select(1))
    /\ WF_vars(sweep_evaluate(1))
    /\ WF_vars(sweep_fill(1))
    /\ WF_vars(fill_exception(1))

SpecLive == Init /\ [][NextLive]_vars /\ SweepFairness

\* the simulator on its own: one call of simulate_order_fill on any input,
\* with the bid and ask of calculate_spread for the same price and class
InstrumentTypes == {"forex", "crypto", "stock", "index", "commodity", "unknown"}
OrderTypes == {"market", "limit", "stop", "stop_limit"}
SimPrices == {1, 3, 100, 104, 5000}
SimLevels == {0, 1, 100, 101, 104, 5000}

simulate(order_type, side, current_price, limit_price, stop_price, instrument_type, random_factor) ==
    /\ ~sim.called
    /\ sim' = [called |-> TRUE, order_type |-> order_type, side |-> side,
               current_price |-> current_price, limit_price |-> limit_price,
               stop_price |-> stop_price, instrument_type |-> instrument_type,
               bid |-> calculate_spread(current_price, instrument_type)[1],
               ask |-> calculate_spread(current_price, instrument_type)[2],
               fill |-> simulate_order_fill(order_type, side, current_price, limit_price,
                                            stop_price, instrument_type, random_factor)]
    /\ UNCHANGED <<accounts, orders, positions, ledger, price, placing, pc, queue, loc,
                   result, seen>>

NextSim ==
    \E order_type \in OrderTypes, side \in Sides, current_price \in SimPrices,
       limit_price \in SimLevels, stop_price \in SimLevels,
       instrument_type \in InstrumentTypes, random_factor \in RandomFactors :
        simulate(order_type, side, current_price, limit_price, stop_price,
                 instrument_type, random_factor)

SpecSim == Init /\ [][NextSim]_vars

\* ================================================================== claims
LedgerOf(account_id) == SelectSeq(ledger, LAMBDA e : e.account_id = account_id)

\* ledger entries of one effect type that reference an order
OrderEntries(order_id, entry_type) ==
    {i \in DOMAIN ledger : /\ ledger[i].reference_type = "order"
                           /\ ledger[i].reference_id = order_id
                           /\ ledger[i].entry_type = entry_type}

\* the entries appended to the ledger by the step
Appended == SubSeq(ledger', Len(ledger) + 1, Len(ledger'))

\* worker w leaves its commit point in this step (it fills or rolls back)
Commits(w) == pc[w] = "commit" /\ pc'[w] # "commit"

\* C1: for every account, the initial balance plus the sum of the amounts of
\* all its ledger entries equals its current virtual_balance, in every
\* committed state.
C1_BalanceLedgerConservation ==
    \A a \in Accounts :
        Money(InitialBalance) + SumAmounts(LedgerOf(a)) = accounts[a].virtual_balance

\* C2: once an order's status is filled, cancelled, rejected or expired, no
\* step changes its status or its execution fields.
C2_TerminalOrderImmutable ==
    [][\A o \in DOMAIN orders :
          orders[o].status \in TerminalStatuses => orders'[o] = orders[o]]_vars

\* C3: for every order and every effect type (fee, trade P&L) at most one
\* ledger entry references that order.
C3_OneEntryPerOrderEffect ==
    \A o \in DOMAIN orders, t \in {"fee", "trade_pnl"} :
        Cardinality(OrderEntries(o, t)) <= 1

\* C4: every position with status open has size > 0.
C4_OpenPositionHasSize ==
    \A p \in DOMAIN positions : positions[p].status = "open" => positions[p].size > 0

C6_CancelWinsRace ==
    [][\A w \in Sweepers :
          (Commits(w) /\ orders[Head(queue[w])].status = "cancelled")
              => /\ orders'[Head(queue[w])].status = "cancelled"
                 /\ UNCHANGED <<accounts, positions, ledger>>]_vars

\* C7: a fill committed by a sweep pass changes virtual_balance by exactly the
\* fill's own effect (realized P&L minus margin and fee) on the balance that
\* is committed at that moment, and changes the position size by the fill's
\* size: no update committed since the pass read the rows is lost.
C7_NoLostUpdate ==
    [][\A w \in Sweepers :
          (Commits(w) /\ ledger' # ledger) =>
              LET o == Head(queue[w])
                  a == orders[o].account_id
                  l == loc[w]
                  realized == SumAmounts(SelectSeq(Appended,
                                                   LAMBDA e : e.entry_type = "trade_pnl"))
              IN  /\ accounts'[a].virtual_balance - accounts[a].virtual_balance
                        = realized - Notional(orders'[o].fill_price, orders'[o].filled_size)
                                   - orders'[o].fee
                  /\ l.pos # 0 /\ positions'[l.pos].status = "open"
                        => \/ positions'[l.pos].size = positions[l.pos].size + orders[o].size
                           \/ positions'[l.pos].size = positions[l.pos].size - orders[o].size]_vars

\* C8: a fill is committed whole or not at all.  A step that turns an order
\* to filled also appends its fee entry, whose balance_after is the committed
\* virtual_balance, and writes the position book (only a write over a position
\* that was closed or resized since the pass read it can repeat the stored
\* values); a step of a sweep pass that
\* fills nothing leaves balance, positions and ledger as they were; a pass
\* whose processing of a triggered order fails leaves orders, balance,
\* positions and ledger unchanged (the order stays pending); place_order's
\* failing execution commits no balance, position or ledger change.
NewlyFilled(o) == orders'[o].status = "filled" /\ orders[o].status # "filled"

C8_FillAtomic ==
    [][/\ \A o \in DOMAIN orders :
             NewlyFilled(o) =>
                 /\ Appended # <<>>
                 /\ LET e == Appended[Len(Appended)]
                    IN  /\ e.entry_type = "fee"
                        /\ e.reference_type = "order" /\ e.reference_id = o
                        /\ e.amount = -orders'[o].fee
                        /\ e.balance_after = accounts'[orders[o].account_id].virtual_balance
                 /\ \/ positions' # positions
                    \/ orders[o].size = 0
                    \/ \E w \in Sweepers :
                           /\ loc[w].pos # 0
                           /\ \/ positions[loc[w].pos].status = "closed"
                              \/ positions[loc[w].pos].size # loc[w].pos_size
       /\ \A w \in Sweepers :
             (pc'[w] # pc[w] \/ queue'[w] # queue[w]) =>
                 \/ \E o \in DOMAIN orders : NewlyFilled(o)
                 \/ UNCHANGED <<accounts, positions, ledger>>
       /\ \A w \in Sweepers :
             result'[w].errors = result[w].errors + 1 =>
                 UNCHANGED <<accounts, orders, positions, ledger>>
       /\ (placing' # placing /\ placing' \subseteq placing) =>
             UNCHANGED <<accounts, positions, ledger>>]_vars

\* a pass that rolled one triggered order back and filled another
C8_Witness ==
    \E w \in Sweepers :
        /\ result[w].errors > 0 /\ result[w].filled > 0
        /\ \E o \in DOMAIN orders : orders[o].status = "pending" /\ orders[o].type \in SweptTypes
        /\ ledger # <<>>

\* C9: an order in status rejected has caused no ledger entry and no fill:
\* nothing references it in the ledger and its execution fields are unset.
C9_RejectedHasNoEffect ==
    \A o \in DOMAIN orders :
        orders[o].status = "rejected" =>
            /\ OrderEntries(o, "fee") = {} /\ OrderEntries(o, "trade_pnl") = {}
            /\ orders[o].fill_price = 0 /\ orders[o].filled_size = 0 /\ orders[o].fee = 0

\* C10: once place_order has returned for an accepted request, a market order
\* is filled, and a limit, stop or stop-limit order whose fill condition does
\* not hold at placement is pending unless a sweep pass has filled it or
\* cancel_order has cancelled it.
C10_PlacementOutcome ==
    \A o \in DOMAIN orders \ placing :
        LET at_placement ==
                simulate_order_fill(orders[o].type, orders[o].side, MOCK_PRICE,
                                    orders[o].price, orders[o].stop_price,
                                    InstrumentTypeOf(orders[o].instrument_id), 0).status
        IN  /\ orders[o].type = "market" => orders[o].status = "filled"
            /\ (orders[o].type \in SweptTypes /\ at_placement # "filled")
                   => orders[o].status \in {"pending", "filled", "cancelled"}

\* the step in which worker w decides to fill the order at the head of its queue
Triggers(w) == pc[w] = "loop" /\ pc'[w] = "commit"

\* bid and ask around the instrument's current price
Bid(instrument_id) == calculate_spread(price[instrument_id], InstrumentTypeOf(instrument_id))[1]
Ask(instrument_id) == calculate_spread(price[instrument_id], InstrumentTypeOf(instrument_id))[2]

\* C11: a limit order is filled only if its limit price is at least as good
\* as the touch price (limit >= ask for a buy, limit <= bid for a sell), an
\* unfilled pending limit order has filled_size 0, and a limit fill is never
\* priced worse than the limit.
C11_LimitFillCondition ==
    [][/\ \A w \in Sweepers :
             (Triggers(w) /\ orders[Head(queue[w])].type = "limit") =>
                 LET o == orders[Head(queue[w])]
                 IN  /\ o.side = "buy" => Tick(o.price) >= Ask(o.instrument_id)
                     /\ o.side = "sell" => Tick(o.price) <= Bid(o.instrument_id)
       /\ \A o \in DOMAIN orders :
             (orders'[o].type = "limit" /\ orders'[o].status = "pending")
                 => orders'[o].filled_size = 0
       /\ \A o \in DOMAIN orders :
             (orders[o].type = "limit" /\ NewlyFilled(o)) =>
                 /\ orders[o].side = "buy" => orders'[o].fill_price <= orders[o].price
                 /\ orders[o].side = "sell" => orders'[o].fill_price >= orders[o].price]_vars

\* worker w commits the fill of order o onto position p, which is still as
\* the pass read it
FillsOnto(w, o, p) ==
    /\ pc[w] = "commit" /\ Head(queue[w]) = o /\ NewlyFilled(o)
    /\ loc[w].pos = p /\ p # 0
    /\ positions[p].status = "open"
    /\ positions[p].size = loc[w].pos_size
    /\ accounts[orders[o].account_id].virtual_balance = loc[w].balance

\* C12: an opposite-side fill of size f larger than the open position's size
\* s closes that position as it is (side, size and entry price kept), realizes
\* P&L on s units at entry price versus fill price in virtual_balance and in
\* one trade P&L ledger entry, and opens a new position of size f - s on the
\* fill's side at the fill price.
C12_OvershootOpensRemainder ==
    [][\A w \in Sweepers, o \in DOMAIN orders, p \in DOMAIN positions :
          (/\ FillsOnto(w, o, p)
           /\ positions[p].side # orders[o].side
           /\ orders[o].size > positions[p].size) =>
              LET f == orders[o].size
                  s == positions[p].size
                  fill_price == orders'[o].fill_price
                  realized == calculate_position_pnl(positions[p].entry_price, fill_price,
                                                     s, positions[p].side)
                  n == Len(positions')
              IN  /\ positions'[p] = [positions[p] EXCEPT !.status = "closed"]
                  /\ n = Len(positions) + 1
                  /\ positions'[n] = Position(orders[o].account_id, orders[o].instrument_id,
                                              orders[o].side, f - s, fill_price,
                                              orders[o].leverage)
                  /\ Len(Appended) = 2
                  /\ Appended[1].entry_type = "trade_pnl" /\ Appended[1].amount = realized
                  /\ Appended[1].reference_id = o
                  /\ orders'[o].pnl = realized
                  /\ accounts'[orders[o].account_id].virtual_balance =
                        accounts[orders[o].account_id].virtual_balance
                        - Notional(fill_price, f) \div orders[o].leverage
                        - orders'[o].fee + realized]_vars

\* an overshooting fill has happened: a closed position of size 1, a nonzero
\* P&L booked on the size-2 order, and the remainder open on the order's side
C12_Witness ==
    \E o \in DOMAIN orders, p \in DOMAIN positions, q \in DOMAIN positions :
        /\ orders[o].status = "filled" /\ orders[o].size = 2 /\ orders[o].pnl # 0
        /\ positions[p].status = "closed" /\ positions[p].size = 1
        /\ positions[p].side # orders[o].side
        /\ q > p /\ positions[q].status = "open" /\ positions[q].size = 1
        /\ positions[q].side = orders[o].side
        /\ positions[q].entry_price = orders[o].fill_price
        /\ OrderEntries(o, "trade_pnl") # {}

\* C13: a same-side fill of size f on an open position of size s and entry e
\* sets size to s + f and entry_price to (e*s + fill_price*f) / (s + f), to
\* the nearest unit of the price grid, keeps the position open, creates no
\* position, books no trade P&L entry and adds no P&L to virtual_balance.
C13_SameSideReaverages ==
    [][\A w \in Sweepers, o \in DOMAIN orders, p \in DOMAIN positions :
          (FillsOnto(w, o, p) /\ positions[p].side = orders[o].side) =>
              LET f == orders[o].size
                  s == positions[p].size
                  fill_price == orders'[o].fill_price
                  total_cost == positions[p].entry_price * s + fill_price * f
                  err == positions'[p].entry_price * (s + f) - total_cost
              IN  /\ positions'[p].size = s + f
                  /\ 2 * err <= s + f /\ -2 * err <= s + f
                  /\ positions'[p].status = "open"
                  /\ positions'[p].side = positions[p].side
                  /\ Len(positions') = Len(positions)
                  /\ Len(Appended) = 1 /\ Appended[1].entry_type = "fee"
                  /\ orders'[o].pnl = 0
                  /\ accounts'[orders[o].account_id].virtual_balance =
                        accounts[orders[o].account_id].virtual_balance
                        - Notional(fill_price, f) \div orders[o].leverage
                        - orders'[o].fee]_vars

\* two same-side fills at different prices re-averaged the one open position
C13_Witness ==
    \E p \in DOMAIN positions, o1 \in DOMAIN orders, o2 \in DOMAIN orders :
        /\ o1 < o2
        /\ orders[o1].status = "filled" /\ orders[o2].status = "filled"
        /\ orders[o1].side = orders[o2].side /\ positions[p].side = orders[o1].side
        /\ orders[o1].fill_price # orders[o2].fill_price
        /\ orders[o1].size > 0 /\ orders[o2].size > 0
        /\ positions[p].status = "open"
        /\ positions[p].size = orders[o1].size + orders[o2].size
        /\ positions[p].entry_price > Min(orders[o1].fill_price, orders[o2].fill_price)
        /\ positions[p].entry_price < Max(orders[o1].fill_price, orders[o2].fill_price)
        /\ Len(positions) = 1

\* C14: a market fill is priced at the touch plus a slippage against the
\* trader of at most 0.5% of the touch (ask <= fill_price <= ask * 1.005 for a
\* buy, bid * 0.995 <= fill_price <= bid for a sell, fill_price being
\* base_price + slippage); a limit fill has no slippage: it is priced at the
\* touch or at the limit.
C14_MarketSlippageBounded ==
    sim.called =>
        /\ (sim.order_type = "market" /\ sim.side = "buy") =>
              /\ sim.fill.status = "filled"
              /\ sim.fill.base_price = sim.ask
              /\ 0 <= sim.fill.fill_slippage
              /\ sim.fill.fill_slippage <= sim.ask * (5 * RANDOM_DENOM)
              /\ sim.fill.slippage = sim.fill.fill_slippage
        /\ (sim.order_type = "market" /\ sim.side = "sell") =>
              /\ sim.fill.status = "filled"
              /\ sim.fill.base_price = sim.bid
              /\ -(sim.bid * (5 * RANDOM_DENOM)) <= sim.fill.fill_slippage
              /\ sim.fill.fill_slippage <= 0
              /\ sim.fill.slippage = sim.fill.fill_slippage
        /\ (sim.order_type = "limit" /\ sim.fill.status = "filled") =>
              /\ sim.fill.slippage = 0 /\ sim.fill.fill_slippage = 0
              /\ sim.fill.base_price \in {sim.ask, sim.bid, Tick(sim.limit_price)}

\* a market buy was filled above the ask, by the largest slippage
C14_Witness ==
    /\ sim.called /\ sim.order_type = "market" /\ sim.side = "buy"
    /\ sim.fill.fill_slippage > 0
    /\ sim.fill.fill_slippage = sim.ask * (5 * RANDOM_DENOM)

\* worker w evaluates the order at the head of its queue in this step
Evaluates(w) == pc[w] = "loop" /\ result'[w].processed = result[w].processed + 1

\* the largest whole number of units not above a * 3 / 1000
ThreePerMille(a) == (a \div 1000) * 3 + ((a % 1000) * 3) \div 1000

\* C15: a sweep pass triggers a stop order exactly when the mid price has
\* moved through the stop level (mid >= stop for a buy, mid <= stop for a
\* sell), an untriggered order is left as it is, and a triggered order is
\* filled at the touch price with adverse slippage of at most 0.3%:
\* ask <= fill_price <= ask * 1.003 for a buy, bid * 0.997 <= fill_price <= bid
\* for a sell.
C15_StopFillsAtTouch ==
    [][\A w \in Sweepers :
          (Evaluates(w) /\ orders[Head(queue[w])].type = "stop") =>
              LET o == Head(queue[w])
                  mid == price[orders[o].instrument_id]
                  through == IF orders[o].side = "buy" THEN mid >= orders[o].stop_price
                                                       ELSE mid <= orders[o].stop_price
                  fill_price == Tick(loc'[w].fill_price)
                  ask == Ask(orders[o].instrument_id)
                  bid == Bid(orders[o].instrument_id)
              IN  /\ ~through => (~Triggers(w) /\ orders' = orders)
                  /\ through => (Triggers(w) \/ orders'[o].status = "rejected")
                  /\ (Triggers(w) /\ orders[o].side = "buy") =>
                        (ask <= fill_price /\ fill_price - ask <= ThreePerMille(ask))
                  /\ (Triggers(w) /\ orders[o].side = "sell") =>
                        (fill_price <= bid /\ bid - fill_price <= ThreePerMille(bid))]_vars

\* C16: when a sweep pass evaluates a stop-limit order whose stop condition
\* holds at the current price (mid >= stop for a buy, mid <= stop for a sell)
\* but whose limit condition does not (limit >= ask for a buy, limit <= bid for
\* a sell), the order row is left exactly as it was: pending, not filled, not
\* rejected, nothing stored; and the pass fills a stop-limit order only if
\* both conditions hold at the price of that evaluation.
C16_StopLimitStateless ==
    [][\A w \in Sweepers :
          (Evaluates(w) /\ orders[Head(queue[w])].type = "stop_limit") =>
              LET o == Head(queue[w])
                  mid == price[orders[o].instrument_id]
                  stop_holds == IF orders[o].side = "buy"
                                THEN mid >= orders[o].stop_price
                                ELSE mid <= orders[o].stop_price
                  limit_holds == IF orders[o].side = "buy"
                                 THEN Tick(orders[o].price) >= Ask(orders[o].instrument_id)
                                 ELSE Tick(orders[o].price) <= Bid(orders[o].instrument_id)
              IN  /\ (stop_holds /\ ~limit_holds) => (~Triggers(w) /\ orders' = orders)
                  /\ Triggers(w) => (stop_holds /\ limit_holds)]_vars

C18_SpreadSymmetric ==
    sim.called =>
        LET mid == Tick(sim.current_price)
            spread == sim.current_price * (2 * SPREADS(sim.instrument_type))
        IN  /\ sim.ask - sim.bid = spread
            /\ mid - sim.bid = sim.ask - mid
            /\ sim.bid < mid /\ mid < sim.ask
            /\ sim.instrument_type = "unknown" =>
                  (sim.ask - sim.bid) * 1000 = mid

\* a quote for a class outside the table
C18_Witness ==
    /\ sim.called /\ sim.current_price = 3
    /\ sim.instrument_type = "unknown" /\ sim.ask - sim.bid = 60

\* C19: every order has filled_size <= size, and a limit, stop or stop-limit
\* order (of positive size) has filled_size 0 or size, with filled_size = size
\* exactly when its status is filled.
C19_FilledSizeAllOrNothing ==
    \A o \in DOMAIN orders :
        /\ orders[o].filled_size <= orders[o].size
        /\ (orders[o].type \in SweptTypes /\ orders[o].size > 0) =>
              /\ orders[o].filled_size \in {0, orders[o].size}
              /\ orders[o].filled_size = orders[o].size <=> orders[o].status = "filled"

\* C20: an opposite-side fill of size f, 0 < f < s, on the open position of
\* size s reduces the position to s - f, leaves it open at its entry price, and
\* realizes the P&L of the f units closed (entry price versus fill price, by
\* the position's side): the amount is added to virtual_balance and booked as
\* one trade P&L ledger entry.
C20_PartialReduceRealizesPnl ==
    [][\A w \in Sweepers, o \in DOMAIN orders, p \in DOMAIN positions :
          (/\ FillsOnto(w, o, p)
           /\ positions[p].side # orders[o].side
           /\ 0 < orders[o].size /\ orders[o].size < positions[p].size) =>
              LET f == orders[o].size
                  fill_price == orders'[o].fill_price
                  realized == calculate_position_pnl(positions[p].entry_price, fill_price,
                                                     f, positions[p].side)
                  pnls == SelectSeq(Appended, LAMBDA e : e.entry_type = "trade_pnl")
              IN  /\ positions'[p] = [positions[p] EXCEPT !.size = @ - f]
                  /\ Len(positions') = Len(positions)
                  /\ Len(pnls) = 1 /\ pnls[1].amount = realized
                  /\ accounts'[orders[o].account_id].virtual_balance =
                        accounts[orders[o].account_id].virtual_balance
                        - Notional(fill_price, f) \div orders[o].leverage
                        - orders'[o].fee + realized]_vars

\* C21: within one pass, the orders of one account and instrument are
\* processed oldest first (ids are given in creation order): when a pass
\* evaluates an order, no older order of the same account and instrument is
\* still waiting in that pass.
C21_OldestFirst ==
    [][\A w \in Sweepers :
          Evaluates(w) =>
              \A i \in 2 .. Len(queue[w]) :
                  (/\ orders[queue[w][i]].account_id = orders[Head(queue[w])].account_id
                   /\ orders[queue[w][i]].instrument_id
                          = orders[Head(queue[w])].instrument_id)
                      => queue[w][i] > Head(queue[w])]_vars

\* C22: within one pass every order is decided at the price its instrument
\* had when the pass started: an order is triggered only if its condition
\* holds at that price, an order whose condition holds at that price is
\* triggered (or rejected for insufficient balance), and the fill price is
\* the one computed from that price.
C22_OnePricePerPass ==
    [][\A w \in Sweepers :
          Evaluates(w) =>
              LET o == Head(queue[w])
                  start_price == seen[w][orders[o].instrument_id]
                  met == should_fill(orders[o], start_price)
              IN  /\ Triggers(w) => met
                  /\ met => (Triggers(w) \/ orders'[o].status = "rejected")
                  /\ Triggers(w) =>
                        loc'[w].fill_price = sweep_fill_price(orders[o], start_price)]_vars

\* worker w commits the fill of order o from reads that are still current
FillsFresh(w, o) ==
    /\ pc[w] = "commit" /\ Head(queue[w]) = o /\ NewlyFilled(o)
    /\ accounts[orders[o].account_id].virtual_balance = loc[w].balance
    /\ IF loc[w].pos = 0
       THEN OpenPositions(positions, orders[o].account_id, orders[o].instrument_id) = {}
       ELSE /\ OpenPositions(positions, orders[o].account_id, orders[o].instrument_id)
                  = {loc[w].pos}
            /\ positions[loc[w].pos].size = loc[w].pos_size

\* C23: from the same account and position state, a fill (of positive size)
\* on the sweep path leaves the positions, the virtual_balance and the ledger entries that the
\* placement path (place_order with _handle_position_update) leaves for the
\* same side, size, fill price and leverage.
C23_PathsAgree ==
    [][\A w \in Sweepers, o \in DOMAIN orders :
          (FillsFresh(w, o) /\ orders[o].size > 0) =>
              LET placed == place_order_fill(o, loc[w].fill_price)
              IN  /\ positions' = placed.positions
                  /\ accounts'[orders[o].account_id].virtual_balance = placed.virtual_balance
                  /\ Appended = placed.entries]_vars

C25_MarginReconciled ==
    [][\A o \in DOMAIN orders :
          LET a == orders[o].account_id
              margin == Notional(orders'[o].fill_price, orders'[o].filled_size)
                            \div orders[o].leverage
          IN  (/\ NewlyFilled(o)
               /\ accounts[a].margin_available =
                      accounts[a].virtual_balance - accounts[a].margin_used)
              => /\ accounts'[a].margin_available =
                        accounts'[a].virtual_balance - accounts'[a].margin_used
                 /\ margin > 0 => accounts'[a].margin_used # accounts[a].margin_used]_vars

\* C26: when a sweep pass evaluates a pending order whose fill condition does
\* not hold at the current price (limit: price at or through the limit; stop:
\* price at or through the stop; stop-limit: both), the order is not taken to
\* a fill and no account, order, position or ledger row changes; the pass
\* moves on to its next order.
C26_NoTriggerNoChange ==
    [][\A w \in Sweepers :
          LET o == orders[Head(queue[w])]
              p == price[o.instrument_id]
              limit_met == /\ o.price # 0
                           /\ IF o.side = "buy" THEN p <= o.price ELSE p >= o.price
              stop_met == /\ o.stop_price # 0
                          /\ IF o.side = "buy" THEN p >= o.stop_price ELSE p <= o.stop_price
              holds == \/ o.type = "limit" /\ limit_met
                       \/ o.type = "stop" /\ stop_met
                       \/ o.type = "stop_limit" /\ stop_met /\ limit_met
          IN  (Evaluates(w) /\ o.status = "pending" /\ ~holds)
              => /\ UNCHANGED <<accounts, orders, positions, ledger>>
                 /\ pc'[w] # "commit"
                 /\ queue'[w] = Tail(queue[w])]_vars

\* a pass over a single buy limit order ended with the order evaluated, not
\* filled, not failed and still pending, the price standing above the limit
C26_Witness ==
    \E w \in Sweepers :
        /\ Len(orders) = 1
        /\ orders[1].type = "limit" /\ orders[1].side = "buy" /\ orders[1].size > 0
        /\ orders[1].status = "pending"
        /\ price[orders[1].instrument_id] > orders[1].price
        /\ pc[w] = "idle" /\ queue[w] = <<>>
        /\ result[w].processed = 1 /\ result[w].filled = 0 /\ result[w].errors = 0
        /\ accounts[orders[1].account_id].virtual_balance = Money(InitialBalance)
        /\ positions = <<>> /\ ledger = <<>>

C29_MarginReturned ==
    \A a \in Accounts :
        (/\ Len(orders) = 2 /\ Len(positions) = 1 /\ Len(ledger) = 3
         /\ \A o \in DOMAIN orders : /\ orders[o].account_id = a
                                     /\ orders[o].status = "filled"
                                     /\ orders[o].size > 0
         /\ orders[1].size = orders[2].size /\ orders[1].side # orders[2].side
         /\ positions[1].status = "closed"
         /\ \A i \in DOMAIN ledger : ledger[i].reference_type = "order")
        => accounts[a].virtual_balance =
               Money(InitialBalance) + orders[1].pnl + orders[2].pnl
               - orders[1].fee - orders[2].fee

\* C30: the virtual_balance of every account is never negative, and no step
\* fills an order whose margin plus fee exceeds the balance of its account.
C30_BalanceNonNegative ==
    [][\A a \in Accounts :
          /\ accounts[a].virtual_balance >= 0 => accounts'[a].virtual_balance >= 0
          /\ \A o \in DOMAIN orders :
                (NewlyFilled(o) /\ orders[o].account_id = a)
                => Notional(orders'[o].fill_price, orders'[o].filled_size)
                       \div orders[o].leverage + orders'[o].fee
                   <= accounts[a].virtual_balance]_vars

====
